---- MODULE Spec2Model ----
(***************************************************************************)
(* m3ugen (src/main.rs): for every entry of a parent directory, create a   *)
(* hidden sub-directory ".<name>", create/truncate "<name>.m3u", write one *)
(* playlist line per data file (name ending in chd, cue or bin) and move   *)
(* the data file into the hidden sub-directory.                            *)
(*                                                                         *)
(* Strings are sequences of one-character strings, so that splitting,      *)
(* joining and suffix matching are computed character by character.  A     *)
(* filesystem path is the sequence of the non-empty components of its      *)
(* string.                                                                 *)
(***************************************************************************)
EXTENDS Naturals, Sequences, FiniteSets

VARIABLES
    fsDirs,          \* the directories of the filesystem (set of paths)
    fsFiles,         \* the regular files: path -> content (sequence of lines)
    path_to_parent,  \* args[1]
    pc,              \* position of main
    child_dirs,      \* entries of the parent directory not yet yielded
    curr,            \* curr.path() of the entry being processed
    curr_name,       \* its last component
    hidden_name,     \* "." followed by curr_name
    sub_dir,         \* the path string of the hidden sub-directory
    outfile,         \* the open playlist file (its path in the tree)
    files,           \* entries of the current child not yet yielded
    run,             \* number of the current invocation of the program
    faults,          \* calls so far that failed for a reason outside the tree
    trace,           \* per entry of the parent: its filesystem calls, in order
    fsDirs0,         \* fsDirs when the current invocation started
    fsFiles0,        \* fsFiles when the current invocation started
    parts,           \* argument of a stand-alone build_path_from_parts call
    composed         \* its result

vars == <<fsDirs, fsFiles, path_to_parent, pc, child_dirs, curr, curr_name,
          hidden_name, sub_dir, outfile, files, run,
          faults, trace, fsDirs0, fsFiles0, parts, composed>>

(***************************************************************************)
(* Bounds of the model.                                                    *)
(***************************************************************************)
MaxChildren == 2   \* entries of the parent directory
MaxFiles == 2      \* entries of a child directory before the program runs
MaxRuns == 2       \* invocations of the program on the same tree
MaxFaults == 2     \* calls that fail for a reason outside the tree
MaxParts == 3      \* segments handed to build_path_from_parts
MaxSegLen == 2     \* characters of one such segment

(***************************************************************************)
(* Strings.                                                                *)
(***************************************************************************)
\* env::consts::OS is not "windows": the separator is "/"
Sep == "/"

Ext == {<<"c", "h", "d">>, <<"c", "u", "e">>, <<"b", "i", "n">>}

\* str::split(sep): the pieces between consecutive separators (and the two
\* ends of the string), empty pieces included, in order
split(s) ==
    LET cuts == {0, Len(s) + 1} \cup {i \in 1..Len(s) : s[i] = Sep}
        cut(k) == CHOOSE c \in cuts : Cardinality({x \in cuts : x < c}) = k
    IN  [k \in 1..(Cardinality(cuts) - 1) |-> SubSeq(s, cut(k - 1) + 1, cut(k) - 1)]

get_path_dir_name(path) ==
    LET dir == split(path) IN dir[Len(dir)]

RECURSIVE push_parts(_, _, _)
push_parts(ps, count, ret) ==
    IF count = Len(ps) THEN ret
    ELSE LET c == count + 1
             r == ret \o ps[c]
         IN  push_parts(ps, c, IF c # Len(ps) THEN Append(r, Sep) ELSE r)

\* a separator pushed after every part, the last one included
RECURSIVE push_parts_trailing(_, _, _)
push_parts_trailing(ps, count, ret) ==
    IF count = Len(ps) THEN ret
    ELSE push_parts_trailing(ps, count + 1, Append(ret \o ps[count + 1], Sep))

build_path_from_parts_trailing(ps) == push_parts_trailing(ps, 0, <<>>)

build_path_from_parts(ps) == push_parts(ps, 0, <<>>)

ends_with(s, ext) ==
    /\ Len(s) >= Len(ext)
    /\ SubSeq(s, Len(s) - Len(ext) + 1, Len(s)) = ext

\* the skip of lines 116-121 left out: every entry counts as a data file
is_data_file_any(curr_file) == TRUE

is_data_file(curr_file) == \E ext \in Ext : ends_with(curr_file, ext)

(***************************************************************************)
(* The filesystem calls of std::fs, on the tree <<fsDirs, fsFiles>>.       *)
(***************************************************************************)
NonEmpty(x) == x # <<>>

\* path lookup: the components of a path string; repeated separators collapse
Resolve(s) == SelectSeq(split(s), NonEmpty)

Parent(p) == SubSeq(p, 1, Len(p) - 1)

IsPrefix(p, q) == Len(p) <= Len(q) /\ SubSeq(q, 1, Len(p)) = p

Entries(dirs, fls, d) ==
    {p \in dirs \cup DOMAIN fls : Len(p) = Len(d) + 1 /\ Parent(p) = d}

\* Path::join of a directory string and an entry name
join(dir, name) == IF dir[Len(dir)] = Sep THEN dir \o name ELSE dir \o <<Sep>> \o name

\* fs::exists, as verify_path returns it
verify_path(path) ==
    LET p == Resolve(path) IN p # <<>> /\ (p \in fsDirs \/ p \in DOMAIN fsFiles)

\* a missing directory read as an empty one instead of an error
read_dir_or_empty(path) ==
    LET d == Resolve(path) IN
    [ok |-> TRUE,
     entries |-> {join(path, p[Len(p)]) : p \in Entries(fsDirs, fsFiles, d)}]

\* fs::read_dir: the paths of the entries of a directory, or an error
read_dir(path) ==
    LET d == Resolve(path) IN
    IF d # <<>> /\ d \in fsDirs
    THEN [ok |-> TRUE, entries |-> {join(path, p[Len(p)]) : p \in Entries(fsDirs, fsFiles, d)}]
    ELSE [ok |-> FALSE, entries |-> {}]

\* fs::create_dir: "ok", "exists" (AlreadyExists) or "other"; fault is a failure
\* of the call that the tree does not explain (permissions, quota, link limit)
create_dir(path, fault) ==
    LET d == Resolve(path) IN
    IF d = <<>> \/ Parent(d) \notin fsDirs THEN [res |-> "other", dirs |-> fsDirs]
    ELSE IF d \in fsDirs \/ d \in DOMAIN fsFiles THEN [res |-> "exists", dirs |-> fsDirs]
    ELSE IF fault THEN [res |-> "other", dirs |-> fsDirs]
    ELSE [res |-> "ok", dirs |-> fsDirs \cup {d}]

\* fs::File::create: create the file or truncate an existing one
file_create(path, fault) ==
    LET f == Resolve(path) IN
    IF f = <<>> \/ Parent(f) \notin fsDirs \/ f \in fsDirs \/ fault
    THEN [ok |-> FALSE, file |-> <<>>, files |-> fsFiles]
    ELSE [ok |-> TRUE, file |-> f,
          files |-> [p \in DOMAIN fsFiles \cup {f} |-> IF p = f THEN <<>> ELSE fsFiles[p]]]

\* BufWriter::write of the line and of "\n" to the open file f, flushed when
\* the writer is dropped at the end of the iteration
write_line(fls, f, line) == [fls EXCEPT ![f] = Append(@, line)]

Moved(p, s, d) == IF IsPrefix(s, p) THEN d \o SubSeq(p, Len(s) + 1, Len(p)) ELSE p

\* fs::rename (rename(2)) on the tree <<dirs, fls>>: a file replaces a file, a
\* directory replaces an empty directory, a directory cannot move below itself
rename(dirs, fls, src, dst, fault) ==
    LET s == Resolve(src)
        d == Resolve(dst)
        can == /\ ~fault
               /\ s # <<>> /\ d # <<>>
               /\ (s \in dirs \/ s \in DOMAIN fls)
               /\ Parent(d) \in dirs
               /\ (s \in DOMAIN fls => d \notin dirs)
               /\ (s \in dirs =>
                      /\ d \notin DOMAIN fls
                      /\ (s # d => ~IsPrefix(s, d))
                      /\ (d \in dirs /\ s # d => Entries(dirs, fls, d) = {}))
        keptD == {p \in dirs : ~IsPrefix(d, p) \/ IsPrefix(s, p)}
        keptF == {p \in DOMAIN fls : ~IsPrefix(d, p) \/ IsPrefix(s, p)}
        from(q) == CHOOSE p \in keptF : Moved(p, s, d) = q
    IN  IF ~can THEN [ok |-> FALSE, dirs |-> dirs, files |-> fls]
        ELSE IF s = d THEN [ok |-> TRUE, dirs |-> dirs, files |-> fls]
        ELSE [ok |-> TRUE,
              dirs |-> {Moved(p, s, d) : p \in keptD},
              files |-> [q \in {Moved(p, s, d) : p \in keptF} |-> fls[from(q)]]]

(***************************************************************************)
(* The trees the program is started on: a parent directory "r" holding up  *)
(* to MaxChildren entries (directories "A" and "bin", a plain file "F");   *)
(* "A" holds up to MaxFiles of the entries FileNames, "bin" is empty or    *)
(* holds "g.cue"; "q" does not exist.                                      *)
(***************************************************************************)
Root == <<"r">>
Missing == <<"q">>
DirNames == {<<"A">>, <<"b", "i", "n">>}
PlainNames == {<<"F">>}
FileNames == {<<"g", ".", "c", "u", "e">>, <<"g", ".", "b", "i", "n">>, <<"c", ".", "j">>}

\* the entries a directory of the parent may hold
Holds(d) == IF d = <<"A">> THEN FileNames ELSE {<<"g", ".", "c", "u", "e">>}

UpTo(S, n) == {T \in SUBSET S : Cardinality(T) <= n}

Tree(ds, ps, cont) ==
    /\ fsDirs = {<<Root>>} \cup {<<Root, d>> : d \in ds}
    /\ fsFiles = [p \in {<<Root, f>> : f \in ps}
                        \cup UNION {{<<Root, d, f>> : f \in cont[d]} : d \in ds}
                  |-> <<>>]

Init ==
    /\ \E E \in UpTo(DirNames \cup PlainNames, MaxChildren) :
         \E cont \in [E \cap DirNames -> UpTo(FileNames, MaxFiles)] :
            /\ \A d \in E \cap DirNames : cont[d] \subseteq Holds(d)
            /\ Tree(E \cap DirNames, E \cap PlainNames, cont)
    /\ path_to_parent \in {Root, Missing}
    /\ pc = "start"
    /\ child_dirs = {}
    /\ curr = <<>>
    /\ curr_name = <<>>
    /\ hidden_name = <<>>
    /\ sub_dir = <<>>
    /\ outfile = <<>>
    /\ files = {}
    /\ run = 1
    /\ faults = 0
    /\ trace = <<>>
    /\ fsDirs0 = fsDirs
    /\ fsFiles0 = fsFiles
    /\ parts = <<>>
    /\ composed = <<>>

\* the calls made for the current entry of the parent, extended by one
Logged(n, op, f, res) ==
    LET old == IF n \in DOMAIN trace THEN trace[n] ELSE <<>>
    IN  [m \in DOMAIN trace \cup {n} |->
            IF m = n THEN Append(old, [op |-> op, file |-> f, res |-> res]) ELSE trace[m]]

pure == <<parts, composed>>
ghost == <<run, fsDirs0, fsFiles0>>
locals == <<curr, curr_name, hidden_name, sub_dir>>

\* a call may fail for an outside reason while the budget of such failures lasts
Faulty(fault) ==
    /\ fault => faults < MaxFaults
    /\ faults' = IF fault THEN faults + 1 ELSE faults

(***************************************************************************)
(* main, lines 60-150.                                                     *)
(***************************************************************************)
\* a destination that leaves the hidden sub-directory out
new_file_flat(curr_file) ==
    build_path_from_parts(<<path_to_parent, curr_name, get_path_dir_name(curr_file)>>)

\* lines 124-129: where a data file is moved to
new_file(curr_file) ==
    build_path_from_parts(<<path_to_parent, curr_name, hidden_name,
                            get_path_dir_name(curr_file)>>)

\* lines 62-71: verify_path's result is dropped; read_dir(...)? returns the error
Start ==
    /\ pc = "start"
    /\ LET r == read_dir(path_to_parent) IN
         IF r.ok
         THEN /\ child_dirs' = r.entries
              /\ pc' = "walk"
         ELSE /\ child_dirs' = {}
              /\ pc' = "error"
    /\ UNCHANGED <<fsDirs, fsFiles, path_to_parent, locals, outfile, files, faults,
                   trace, ghost, pure>>

\* lines 75-91: the next entry of the parent, the names derived from it, and
\* create_dir, whose result is dropped
CreateSubDir ==
    /\ pc = "walk"
    /\ \E d \in child_dirs, fault \in BOOLEAN :
         /\ Faulty(fault)
         /\ curr' = d
         /\ curr_name' = get_path_dir_name(d)
         /\ hidden_name' = <<".">> \o get_path_dir_name(d)
         /\ sub_dir' = build_path_from_parts(<<path_to_parent, curr_name', hidden_name'>>)
         /\ child_dirs' = child_dirs \ {d}
         /\ LET r == create_dir(sub_dir', fault) IN
              /\ fsDirs' = r.dirs
              /\ trace' = Logged(curr_name', "create_dir", <<>>, r.res)
    /\ pc' = "create"
    /\ UNCHANGED <<fsFiles, path_to_parent, outfile, files, ghost, pure>>

\* lines 93-104: File::create(...).unwrap()
CreateOutfile ==
    /\ pc = "create"
    /\ \E fault \in BOOLEAN :
         /\ Faulty(fault)
         /\ LET file_name == curr_name \o <<".", "m", "3", "u">>
                r == file_create(
                        build_path_from_parts(<<path_to_parent, curr_name, file_name>>),
                        fault)
            IN  /\ fsFiles' = r.files
                /\ outfile' = r.file
                /\ pc' = IF r.ok THEN "read" ELSE "panic"
                /\ trace' = Logged(curr_name, "create", <<>>, IF r.ok THEN "ok" ELSE "err")
    /\ UNCHANGED <<fsDirs, path_to_parent, child_dirs, locals, files, ghost, pure>>

\* lines 107-108: verify_path's result is dropped; read_dir(...).unwrap()
ReadChildDir ==
    /\ pc = "read"
    /\ LET r == read_dir(curr) IN
         /\ files' = r.entries
         /\ pc' = IF r.ok THEN "files" ELSE "panic"
    /\ UNCHANGED <<fsDirs, fsFiles, path_to_parent, child_dirs, locals, outfile, faults,
                   trace, ghost, pure>>

\* lines 111-121: an entry that is not a data file is skipped
SkipFile ==
    /\ pc = "files"
    /\ \E curr_file \in files :
         /\ ~is_data_file(curr_file)
         /\ files' = files \ {curr_file}
    /\ UNCHANGED <<fsDirs, fsFiles, path_to_parent, pc, child_dirs, locals, outfile,
                   faults, trace, ghost, pure>>

\* lines 111-146: the playlist line is written, then the file is moved
MoveFile ==
    /\ pc = "files"
    /\ \E curr_file \in files, fault \in BOOLEAN :
         /\ is_data_file(curr_file)
         /\ Faulty(fault)
         /\ LET curr_file_name == get_path_dir_name(curr_file)
                file_m3u_line == build_path_from_parts(<<hidden_name, curr_file_name>>)
                written == write_line(fsFiles, outfile, file_m3u_line)
                r == rename(fsDirs, written, curr_file, new_file(curr_file), fault)
            IN  /\ fsDirs' = r.dirs
                /\ fsFiles' = r.files
                /\ trace' = Logged(curr_name, "rename", curr_file_name,
                                   IF r.ok THEN "ok" ELSE "err")
         /\ files' = files \ {curr_file}
    /\ UNCHANGED <<path_to_parent, pc, child_dirs, locals, outfile, ghost, pure>>

\* lines 147-148: the entries of the child are exhausted; the closure returns
EndChild ==
    /\ pc = "files"
    /\ files = {}
    /\ pc' = "walk"
    /\ curr' = <<>>
    /\ curr_name' = <<>>
    /\ hidden_name' = <<>>
    /\ sub_dir' = <<>>
    /\ outfile' = <<>>
    /\ UNCHANGED <<fsDirs, fsFiles, path_to_parent, child_dirs, files, faults, trace,
                   ghost, pure>>

\* lines 148-149: the entries of the parent are exhausted; Ok(())
Finish ==
    /\ pc = "walk"
    /\ child_dirs = {}
    /\ pc' = "done"
    /\ UNCHANGED <<fsDirs, fsFiles, path_to_parent, child_dirs, locals, outfile, files,
                   faults, trace, ghost, pure>>

\* the program is started again, with the same argument, on the tree that a
\* completed run left
Rerun ==
    /\ pc = "done"
    /\ run < MaxRuns
    /\ run' = run + 1
    /\ pc' = "start"
    /\ trace' = <<>>
    /\ fsDirs0' = fsDirs
    /\ fsFiles0' = fsFiles
    /\ UNCHANGED <<fsDirs, fsFiles, path_to_parent, child_dirs, locals, outfile, files,
                   faults, pure>>

Next ==
    \/ Start
    \/ CreateSubDir
    \/ CreateOutfile
    \/ ReadChildDir
    \/ SkipFile
    \/ MoveFile
    \/ EndChild
    \/ Finish
    \/ Rerun

Spec == Init /\ [][Next]_vars

(***************************************************************************)
(* build_path_from_parts on its own: any sequence of up to MaxParts        *)
(* segments of up to MaxSegLen characters, separators and empty segments   *)
(* included.                                                               *)
(***************************************************************************)
Chars == {"a", Sep}

Strings(n) == UNION {[1..k -> Chars] : k \in 0..n}

InitCompose ==
    /\ parts \in UNION {[1..n -> Strings(MaxSegLen)] : n \in 0..MaxParts}
    /\ composed = <<>>
    /\ pc = "pure"
    /\ fsDirs = {}
    /\ fsFiles = <<>>
    /\ path_to_parent = <<>>
    /\ child_dirs = {}
    /\ curr = <<>>
    /\ curr_name = <<>>
    /\ hidden_name = <<>>
    /\ sub_dir = <<>>
    /\ outfile = <<>>
    /\ files = {}
    /\ run = 1
    /\ faults = 0
    /\ trace = <<>>
    /\ fsDirs0 = {}
    /\ fsFiles0 = <<>>

Compose ==
    /\ pc = "pure"
    /\ composed' = build_path_from_parts(parts)
    /\ pc' = "composed"
    /\ UNCHANGED <<fsDirs, fsFiles, path_to_parent, child_dirs, locals, outfile, files,
                   faults, trace, ghost, parts>>

NextCompose == Compose

SpecCompose == InitCompose /\ [][NextCompose]_vars

(***************************************************************************)
(* Vocabulary of the properties.                                           *)
(***************************************************************************)
\* a name that ends in chd, cue or bin
MediaName(n) ==
    \E k \in 0..Len(n) :
        SubSeq(n, k + 1, Len(n)) \in {<<"c", "h", "d">>, <<"c", "u", "e">>, <<"b", "i", "n">>}

RootPath == <<path_to_parent>>
ChildPath(C) == <<path_to_parent, C>>
Concealed(C) == <<path_to_parent, C, <<".">> \o C>>
Playlist(C) == <<path_to_parent, C, C \o <<".", "m", "3", "u">>>>
PlaylistLine(C, f) == <<".">> \o C \o <<Sep>> \o f

RootExisted == RootPath \in fsDirs0
\* the entries of the root, and those that are folders, when the run started
Entries0 == {p[Len(p)] : p \in Entries(fsDirs0, fsFiles0, RootPath)}
Children0 == {C \in Entries0 : ChildPath(C) \in fsDirs0}
\* the entries directly inside child C when the run started, and now
Inside0(C) == {p[Len(p)] : p \in Entries(fsDirs0, fsFiles0, ChildPath(C))}
Inside(C) == {p[Len(p)] : p \in Entries(fsDirs, fsFiles, ChildPath(C))}
InConcealed(C) == {p[Len(p)] : p \in Entries(fsDirs, fsFiles, Concealed(C))}
InConcealed0(C) == {p[Len(p)] : p \in Entries(fsDirs0, fsFiles0, Concealed(C))}

Present(p) == p \in fsDirs \/ p \in DOMAIN fsFiles

IsRename(e) == e.op = "rename"
IsMoved(e) == e.op = "rename" /\ e.res = "ok"
Calls(C) == IF C \in DOMAIN trace THEN trace[C] ELSE <<>>
Attempts(C) == SelectSeq(Calls(C), IsRename)
Moves(C) == SelectSeq(Calls(C), IsMoved)
Attempted(C, f) == \E i \in 1..Len(Attempts(C)) : Attempts(C)[i].file = f
Terminated == pc \in {"done", "panic", "error"}
ChildFinished == pc = "files" /\ files = {}
AllCallsSucceeded ==
    \A C \in DOMAIN trace : \A i \in 1..Len(trace[C]) : trace[C][i].res = "ok"

(***************************************************************************)
(* C1.  When the processing of a child finishes, its playlist file holds   *)
(* exactly one line per media file whose move succeeded in this run, in    *)
(* the order of enumeration, and no line for a file whose move failed.     *)
(* The code writes the line before it attempts the move.                   *)
(***************************************************************************)
C1_PlaylistListsOnlyMovedFiles ==
    ChildFinished =>
        fsFiles[outfile] =
            [i \in 1..Len(Moves(curr_name)) |->
                PlaylistLine(curr_name, Moves(curr_name)[i].file)]

(***************************************************************************)
(* C2.  The walk never aborts because one child failed: when the run has   *)
(* ended, every entry of the root has been attempted.  The code unwraps    *)
(* the result of File::create, so the first entry whose playlist cannot be *)
(* created ends the run.                                                   *)
(***************************************************************************)
C2_EveryEntryAttempted ==
    (Terminated /\ RootExisted) => \A C \in Entries0 : C \in DOMAIN trace

(***************************************************************************)
(* C3.  A second run on a child that the first run fully organized leaves  *)
(* the concealed folder with the media files inside, performs no move and  *)
(* leaves a playlist equal to the one of the first run.  The second run    *)
(* truncates the playlist and finds no media file to list.                 *)
(***************************************************************************)
Organized0(C) ==
    /\ Concealed(C) \in fsDirs0
    /\ Playlist(C) \in DOMAIN fsFiles0
    /\ InConcealed0(C) # {}
    /\ \A f \in Inside0(C) : ~MediaName(f)
    /\ Len(fsFiles0[Playlist(C)]) = Cardinality(InConcealed0(C))
    /\ {fsFiles0[Playlist(C)][i] : i \in 1..Len(fsFiles0[Playlist(C)])}
          = {PlaylistLine(C, f) : f \in InConcealed0(C)}

C3_SecondRunIdempotent ==
    (run = 2 /\ pc = "done") =>
        \A C \in Children0 :
            Organized0(C) =>
                /\ Concealed(C) \in fsDirs
                /\ InConcealed(C) = InConcealed0(C)
                /\ Moves(C) = <<>>
                /\ Playlist(C) \in DOMAIN fsFiles
                /\ fsFiles[Playlist(C)] = fsFiles0[Playlist(C)]

(***************************************************************************)
(* C4.  If the root does not exist when the run starts, the run ends at    *)
(* once with an error and the tree is never written: no directory or file  *)
(* is created, truncated or renamed.                                       *)
(***************************************************************************)
C4_MissingRootFailsWithoutWrites ==
    ~RootExisted =>
        /\ pc \in {"start", "error"}
        /\ fsDirs = fsDirs0
        /\ fsFiles = fsFiles0
        /\ trace = <<>>

C4_Witness == ~RootExisted /\ pc = "error" /\ Cardinality(fsDirs) > 2

(***************************************************************************)
(* C5.  A failed move does not stop processing: when the run has ended     *)
(* after a move failed, every child folder of the root has had its         *)
(* playlist created and every media entry still directly inside it has had *)
(* its move attempted, each at most once.  A later child whose playlist    *)
(* cannot be created ends the run (see C2), so it is never organized.      *)
(***************************************************************************)
SomeMoveFailed ==
    \E C \in DOMAIN trace : \E i \in 1..Len(trace[C]) :
        trace[C][i].op = "rename" /\ trace[C][i].res = "err"

Processed(C) ==
    /\ \E i \in 1..Len(Calls(C)) : Calls(C)[i].op = "create" /\ Calls(C)[i].res = "ok"
    /\ \A f \in Inside(C) : MediaName(f) => Attempted(C, f)
    /\ \A i, j \in 1..Len(Attempts(C)) : Attempts(C)[i].file = Attempts(C)[j].file => i = j

C5_WithinChild ==
    ChildFinished =>
        \A f \in Inside(curr_name) :
            MediaName(f) =>
                Cardinality({i \in 1..Len(Attempts(curr_name)) :
                                Attempts(curr_name)[i].file = f}) = 1

(***************************************************************************)
(* C6.  After a run over an existing root in which every filesystem call   *)
(* succeeded, every entry f of every child folder C whose name ends in     *)
(* chd, cue or bin is at root/C/.C/f and no longer at root/C/f, and the    *)
(* playlist root/C/C.m3u exists directly inside C.                         *)
(***************************************************************************)
C6_MediaRelocated ==
    (pc = "done" /\ RootExisted /\ AllCallsSucceeded) =>
        \A C \in Children0 :
            /\ Playlist(C) \in DOMAIN fsFiles
            /\ \A f \in Inside0(C) :
                  MediaName(f) =>
                      /\ Present(Concealed(C) \o <<f>>)
                      /\ ~Present(ChildPath(C) \o <<f>>)

C6_Witness ==
    /\ pc = "done" /\ RootExisted /\ AllCallsSucceeded
    /\ \E C \in Children0 :
          /\ Cardinality({f \in Inside0(C) : MediaName(f)}) = 2
          /\ \A f \in Inside0(C) : MediaName(f) => Present(Concealed(C) \o <<f>>)

(***************************************************************************)
(* C7.  Frame of organizing child C: a step changes only the concealed     *)
(* subfolder root/C/.C (and what is moved into it), the playlist           *)
(* root/C/C.m3u and the media-named entries directly inside C.  Every      *)
(* other path, inside C, in another child or in the root, keeps its kind   *)
(* and its content.                                                        *)
(***************************************************************************)
Changed(p) ==
    \/ (p \in fsDirs) # (p \in fsDirs')
    \/ (p \in DOMAIN fsFiles) # (p \in DOMAIN fsFiles')
    \/ (p \in DOMAIN fsFiles /\ p \in DOMAIN fsFiles' /\ fsFiles[p] # fsFiles'[p])

\* the paths that organizing the child at path cp may change
MayChange(cp, p) ==
    /\ Len(cp) = Len(RootPath) + 1
    /\ IsPrefix(cp, p)
    /\ LET C == cp[Len(cp)] IN
          \/ p = Concealed(C)
          \/ p = Playlist(C)
          \/ Len(p) = Len(cp) + 1 /\ MediaName(p[Len(p)])
          \/ Len(p) = Len(cp) + 2 /\ Parent(p) = Concealed(C) /\ MediaName(p[Len(p)])

C7_FrameStep ==
    (fsDirs' # fsDirs \/ fsFiles' # fsFiles) =>
        LET cp == Resolve(IF curr' # <<>> THEN curr' ELSE curr) IN
        \A p \in fsDirs \cup fsDirs' \cup DOMAIN fsFiles \cup DOMAIN fsFiles' :
            Changed(p) => MayChange(cp, p)

C7_Frame == [][C7_FrameStep]_vars

C7_Witness ==
    /\ pc = "done"
    /\ Cardinality(Children0) = 2
    /\ \E C \in Children0 :
          /\ Moves(C) # <<>>
          /\ \E f \in Inside0(C) : ~MediaName(f) /\ f \in Inside(C)

(***************************************************************************)
(* C8.  build_path_from_parts of n >= 1 non-empty segments that hold no    *)
(* separator returns the segments in order with exactly n - 1 separators   *)
(* and never ends with a separator.                                        *)
(***************************************************************************)
RECURSIVE Separators(_)
Separators(s) ==
    IF s = <<>> THEN 0 ELSE (IF Head(s) = Sep THEN 1 ELSE 0) + Separators(Tail(s))

RECURSIVE Concat(_)
Concat(ps) == IF ps = <<>> THEN <<>> ELSE Head(ps) \o Concat(Tail(ps))

NotSep(c) == c # Sep

PlainSegments ==
    /\ Len(parts) >= 1
    /\ \A i \in 1..Len(parts) : parts[i] # <<>> /\ Separators(parts[i]) = 0

C8_ComposeSeparators ==
    (pc = "composed" /\ PlainSegments) =>
        /\ Separators(composed) = Len(parts) - 1
        /\ composed[Len(composed)] # Sep
        /\ SelectSeq(composed, NotSep) = Concat(parts)
        /\ \A i \in 1..Len(parts) :
              LET start == Len(Concat(SubSeq(parts, 1, i - 1))) + i IN
              SubSeq(composed, start, start + Len(parts[i]) - 1) = parts[i]

C8_Witness ==
    pc = "composed" /\ PlainSegments /\ Len(parts) = 2 /\ Separators(composed) = 1

(***************************************************************************)
(* C9.  When create_dir of the concealed subfolder fails for a reason      *)
(* other than "already exists", the child is abandoned: no playlist line   *)
(* is written and no move is attempted for it.  The code drops the result  *)
(* of create_dir and goes on.                                              *)
(***************************************************************************)
C9_OtherFailureAbandonsChild ==
    \A C \in DOMAIN trace :
        (trace[C][1].op = "create_dir" /\ trace[C][1].res = "other") =>
            Attempts(C) = <<>>

(***************************************************************************)
(* C10.  The concealed subfolder and the playlist file of a child are      *)
(* never treated as media entries: no move of either is attempted (and so  *)
(* no playlist line is written for either), also for a child whose name    *)
(* ends in chd, cue or bin.  The suffix test accepts ".bin" for child      *)
(* "bin".                                                                  *)
(***************************************************************************)
C10_OwnArtifactsNeverMedia ==
    \A C \in DOMAIN trace :
        /\ ~Attempted(C, <<".">> \o C)
        /\ ~Attempted(C, C \o <<".", "m", "3", "u">>)
====
